---- MODULE Spec2Model ----
(***************************************************************************)
(* A model of sync-wait-group (src/src/lib.rs): one WaitGroup, i.e. one    *)
(* Arc<Inner> with Inner = { cvar: Condvar, count: Mutex<usize> }, used by *)
(* a fixed set of preemptively scheduled threads.  A thread step is one    *)
(* lock acquisition, one access to the protected count, one operation on   *)
(* the condition variable, one release of the lock, or one operation on    *)
(* the Arc.                                                                *)
(***************************************************************************)
EXTENDS Integers, FiniteSets, Sequences, TLC

\* Number of threads that use the group.
NumThreads == 3
\* Total number of clone calls made over the life of the group.
MaxClones == 2

Threads == 1..NumThreads

VARIABLES
    count,     \* Inner.count: the usize protected by the Mutex, kept as an unbounded
               \* integer so that a decrement at 0 shows as a negative value
    lock,      \* the Mutex of Inner.count: the set of threads holding it ({} when unlocked)
    waiters,   \* Inner.cvar: the threads queued (parked) on the Condvar
    strong,    \* the strong count of the Arc<Inner>
    held,      \* held[t]: WaitGroup values thread t owns and is not operating on
    pc,        \* pc[t]: where thread t stands in clone / drop / wait
    ret,       \* ret[t]: where thread t continues after Drop::drop and the drop of its fields
    sawZero,   \* sawZero[t]: t's latest read of count through a guard, in its current call, gave 0
    alone,     \* alone[t]: count was 1 when t's current call of wait began
    clones,    \* number of clone calls that have returned
    released,  \* whether any Drop::drop has decremented count yet
    notifies   \* number of notify_all calls made on Inner.cvar

vars == <<count, lock, waiters, strong, held, pc, ret, sawZero, alone, clones,
          released, notifies>>

\* ------------------------------------------------------------------------
\* Helpers on the state

\* Threads inside Clone::clone.
InClone == {t \in Threads : pc[t] \in {"clone_lock", "clone_inc", "clone_arc", "clone_unlock"}}

RECURSIVE SumHeld(_)
SumHeld(S) == IF S = {} THEN 0
              ELSE LET t == CHOOSE x \in S : TRUE IN held[t] + SumHeld(S \ {t})

\* A WaitGroup value being consumed by drop or wait whose decrement has not run.
Releasing == {t \in Threads : pc[t] \in {"wait_check_lock", "wait_check", "wait_check_unlock",
                                          "wait_keepalive", "drop_lock", "drop_dec"}}
\* A WaitGroup value being built by clone: counted, not yet handed to the caller.
Building == {t \in Threads : pc[t] \in {"clone_arc", "clone_unlock"}}

\* The live handles: created by new or clone, not yet dropped or consumed by wait.
NumLive == SumHeld(Threads) + Cardinality(Releasing) + Cardinality(Building)

\* Threads inside WaitGroup::wait on the slow path, holding the keep-alive Arc.
KeepAlive == {t \in Threads : ret[t] = "wait_lock"
                              /\ pc[t] \in {"drop_lock", "drop_dec", "drop_notify", "drop_unlock",
                                            "drop_arc",
                                            "wait_lock", "wait_loop", "cv_wait",
                                            "wait_unlock", "wait_arc_drop"}}

\* ------------------------------------------------------------------------
\* Mutex<usize>::lock and the drop of its guard (parking_lot::Mutex)

\* lock() returns once the mutex is unlocked, and locks it.
Acquire(t) == lock = {} /\ lock' = {t}
\* Dropping the guard unlocks the mutex.
Release(t) == lock = {t} /\ lock' = {}

\* ------------------------------------------------------------------------
\* WaitGroup::new

\* Mutex::new(1)
InitialCount == 1

Init ==
    /\ count = InitialCount
    /\ lock = {}
    /\ waiters = {}
    /\ strong = 1
    /\ held = [t \in Threads |-> IF t = 1 THEN 1 ELSE 0]
    /\ pc = [t \in Threads |-> "idle"]
    /\ ret = [t \in Threads |-> "idle"]
    /\ sawZero = [t \in Threads |-> FALSE]
    /\ alone = [t \in Threads |-> FALSE]
    /\ clones = 0
    /\ released = FALSE
    /\ notifies = 0

\* ------------------------------------------------------------------------
\* Moving a WaitGroup into another thread (thread::spawn(move || ...))

Move(t, u) ==
    /\ t # u
    /\ pc[t] = "idle" /\ pc[u] = "idle"
    /\ held[t] > 0 /\ held[u] = 0
    /\ held' = [held EXCEPT ![t] = @ - 1, ![u] = @ + 1]
    /\ UNCHANGED <<count, lock, waiters, strong, pc, ret, sawZero, alone, clones,
                   released, notifies>>

\* ------------------------------------------------------------------------
\* Clone for WaitGroup

CloneCall(t) ==
    /\ pc[t] = "idle" /\ held[t] > 0
    /\ clones + Cardinality(InClone) < MaxClones
    /\ pc' = [pc EXCEPT ![t] = "clone_lock"]
    /\ UNCHANGED <<count, lock, waiters, strong, held, ret, sawZero, alone, clones,
                   released, notifies>>

\* let mut count = self.inner.count.lock();
CloneLock(t) ==
    /\ pc[t] = "clone_lock"
    /\ Acquire(t)
    /\ pc' = [pc EXCEPT ![t] = "clone_inc"]
    /\ UNCHANGED <<count, waiters, strong, held, ret, sawZero, alone, clones,
                   released, notifies>>

\* Variant of CloneInc: the increment is left out.
CloneIncForgotten(t) ==
    /\ pc[t] = "clone_inc"
    /\ pc' = [pc EXCEPT ![t] = "clone_arc"]
    /\ UNCHANGED <<count, lock, waiters, strong, held, ret, sawZero, alone, clones,
                   released, notifies>>

\* *count += 1;
CloneInc(t) ==
    /\ pc[t] = "clone_inc"
    /\ count' = count + 1
    /\ pc' = [pc EXCEPT ![t] = "clone_arc"]
    /\ UNCHANGED <<lock, waiters, strong, held, ret, sawZero, alone, clones, released, notifies>>

\* WaitGroup { inner: self.inner.clone() }
CloneArc(t) ==
    /\ pc[t] = "clone_arc"
    /\ strong' = strong + 1
    /\ pc' = [pc EXCEPT ![t] = "clone_unlock"]
    /\ UNCHANGED <<count, lock, waiters, held, ret, sawZero, alone, clones, released, notifies>>

\* The guard is dropped as clone returns the new WaitGroup.
CloneUnlock(t) ==
    /\ pc[t] = "clone_unlock"
    /\ Release(t)
    /\ held' = [held EXCEPT ![t] = @ + 1]
    /\ clones' = clones + 1
    /\ pc' = [pc EXCEPT ![t] = "idle"]
    /\ UNCHANGED <<count, sawZero, waiters, strong, ret, alone, released, notifies>>

\* ------------------------------------------------------------------------
\* Drop for WaitGroup, followed by the drop of the field `inner`

\* drop(wg), or wg going out of scope
DropCall(t) ==
    /\ pc[t] = "idle" /\ held[t] > 0
    /\ held' = [held EXCEPT ![t] = @ - 1]
    /\ pc' = [pc EXCEPT ![t] = "drop_lock"]
    /\ ret' = [ret EXCEPT ![t] = "idle"]
    /\ UNCHANGED <<count, lock, waiters, strong, sawZero, alone, clones, released, notifies>>

\* let mut count = self.inner.count.lock();
DropLock(t) ==
    /\ pc[t] = "drop_lock"
    /\ Acquire(t)
    /\ pc' = [pc EXCEPT ![t] = "drop_dec"]
    /\ UNCHANGED <<count, waiters, strong, held, ret, sawZero, alone, clones,
                   released, notifies>>

\* *count -= 1;
DropDec(t) ==
    /\ pc[t] = "drop_dec"
    /\ count' = count - 1
    /\ released' = TRUE
    /\ pc' = [pc EXCEPT ![t] = "drop_notify"]
    /\ UNCHANGED <<lock, waiters, strong, held, ret, sawZero, alone, clones, notifies>>

\* Variant of DropNotify: no notify at all.
DropNotifyNever(t) ==
    /\ pc[t] = "drop_notify"
    /\ sawZero' = [sawZero EXCEPT ![t] = (count = 0)]
    /\ pc' = [pc EXCEPT ![t] = "drop_unlock"]
    /\ UNCHANGED <<count, lock, waiters, notifies, strong, held, ret, alone, clones, released>>

\* Variant of DropNotify: notify_one in place of notify_all.
DropNotifyOne(t) ==
    /\ pc[t] = "drop_notify"
    /\ sawZero' = [sawZero EXCEPT ![t] = (count = 0)]
    /\ IF count = 0
         THEN /\ notifies' = notifies + 1
              /\ IF waiters = {} THEN waiters' = waiters
                                  ELSE \E w \in waiters : waiters' = waiters \ {w}
         ELSE UNCHANGED <<waiters, notifies>>
    /\ pc' = [pc EXCEPT ![t] = "drop_unlock"]
    /\ UNCHANGED <<count, lock, strong, held, ret, alone, clones, released>>

\* Variant of DropNotify: the notify is decided by *count <= 1.
DropNotifyEarly(t) ==
    /\ pc[t] = "drop_notify"
    /\ sawZero' = [sawZero EXCEPT ![t] = (count = 0)]
    /\ IF count <= 1
         THEN waiters' = {} /\ notifies' = notifies + 1
         ELSE UNCHANGED <<waiters, notifies>>
    /\ pc' = [pc EXCEPT ![t] = "drop_unlock"]
    /\ UNCHANGED <<count, lock, strong, held, ret, alone, clones, released>>

\* if *count == 0 { self.inner.cvar.notify_all(); }
\* notify_all takes every queued thread off the queue of the Condvar.
DropNotify(t) ==
    /\ pc[t] = "drop_notify"
    /\ sawZero' = [sawZero EXCEPT ![t] = (count = 0)]
    /\ IF count = 0
         THEN waiters' = {} /\ notifies' = notifies + 1
         ELSE UNCHANGED <<waiters, notifies>>
    /\ pc' = [pc EXCEPT ![t] = "drop_unlock"]
    /\ UNCHANGED <<count, lock, strong, held, ret, alone, clones, released>>

\* The guard is dropped at the end of Drop::drop.
DropUnlock(t) ==
    /\ pc[t] = "drop_unlock"
    /\ Release(t)
    /\ pc' = [pc EXCEPT ![t] = "drop_arc"]
    /\ UNCHANGED <<count, sawZero, waiters, strong, held, ret, alone, clones, released, notifies>>

\* The field inner: Arc<Inner> is dropped; control goes back to the caller:
\* the code that dropped the WaitGroup, the caller of wait (the `return` of
\* the fast path) or the rest of wait (slow path).
DropArc(t) ==
    /\ pc[t] = "drop_arc"
    /\ strong' = strong - 1
    /\ sawZero' = [sawZero EXCEPT ![t] = IF ret[t] = "wait_lock" THEN @ ELSE FALSE]
    /\ pc' = [pc EXCEPT ![t] = IF ret[t] = "wait_lock" THEN "wait_lock" ELSE "idle"]
    /\ ret' = [ret EXCEPT ![t] = IF @ = "wait_lock" THEN @ ELSE "idle"]
    /\ alone' = [alone EXCEPT ![t] = IF ret[t] = "wait_lock" THEN @ ELSE FALSE]
    /\ UNCHANGED <<count, lock, waiters, held, clones, released, notifies>>

\* ------------------------------------------------------------------------
\* WaitGroup::wait

\* Variant of WaitCall: wait borrows the WaitGroup (wait(&self)), the caller keeps it.
WaitCallBorrowing(t) ==
    /\ pc[t] = "idle" /\ held[t] > 0
    /\ alone' = [alone EXCEPT ![t] = (count = 1)]
    /\ pc' = [pc EXCEPT ![t] = "wait_check_lock"]
    /\ UNCHANGED <<count, lock, waiters, strong, held, ret, sawZero, clones,
                   released, notifies>>

\* wg.wait(): self is moved into the call
WaitCall(t) ==
    /\ pc[t] = "idle" /\ held[t] > 0
    /\ held' = [held EXCEPT ![t] = @ - 1]
    /\ alone' = [alone EXCEPT ![t] = (count = 1)]
    /\ pc' = [pc EXCEPT ![t] = "wait_check_lock"]
    /\ UNCHANGED <<count, lock, waiters, strong, ret, sawZero, clones, released, notifies>>

\* self.inner.count.lock() in the condition of the if
WaitCheckLock(t) ==
    /\ pc[t] = "wait_check_lock"
    /\ Acquire(t)
    /\ pc' = [pc EXCEPT ![t] = "wait_check"]
    /\ UNCHANGED <<count, waiters, strong, held, ret, sawZero, alone, clones,
                   released, notifies>>

\* Variant of WaitCheck: the fast path is taken for *guard >= 1.
WaitCheckAtLeastOne(t) ==
    /\ pc[t] = "wait_check"
    /\ sawZero' = [sawZero EXCEPT ![t] = (count = 0)]
    /\ ret' = [ret EXCEPT ![t] = IF count >= 1 THEN "return" ELSE "wait_lock"]
    /\ pc' = [pc EXCEPT ![t] = "wait_check_unlock"]
    /\ UNCHANGED <<count, lock, waiters, strong, held, alone, clones, released, notifies>>

\* Variant of WaitCheck: the fast path also decrements count itself, before
\* the drop of self decrements it again.
WaitCheckDecrements(t) ==
    /\ pc[t] = "wait_check"
    /\ sawZero' = [sawZero EXCEPT ![t] = (count = 0)]
    /\ ret' = [ret EXCEPT ![t] = IF count = 1 THEN "return" ELSE "wait_lock"]
    /\ count' = IF count = 1 THEN count - 1 ELSE count
    /\ pc' = [pc EXCEPT ![t] = "wait_check_unlock"]
    /\ UNCHANGED <<lock, waiters, strong, held, alone, clones, released, notifies>>

\* *guard == 1
WaitCheck(t) ==
    /\ pc[t] = "wait_check"
    /\ sawZero' = [sawZero EXCEPT ![t] = (count = 0)]
    /\ ret' = [ret EXCEPT ![t] = IF count = 1 THEN "return" ELSE "wait_lock"]
    /\ pc' = [pc EXCEPT ![t] = "wait_check_unlock"]
    /\ UNCHANGED <<count, lock, waiters, strong, held, alone, clones, released, notifies>>

\* Variant of WaitCheckUnlock: the fast path returns without dropping self
\* (the WaitGroup is forgotten).
WaitCheckUnlockForget(t) ==
    /\ pc[t] = "wait_check_unlock"
    /\ Release(t)
    /\ pc' = [pc EXCEPT ![t] = IF ret[t] = "return" THEN "idle" ELSE "wait_keepalive"]
    /\ ret' = [ret EXCEPT ![t] = IF @ = "return" THEN "idle" ELSE @]
    /\ alone' = [alone EXCEPT ![t] = IF ret[t] = "return" THEN FALSE ELSE @]
    /\ sawZero' = [sawZero EXCEPT ![t] = FALSE]
    /\ UNCHANGED <<count, waiters, strong, held, clones, released, notifies>>

\* Variant of WaitCheckUnlock: the guard of the condition lives to the end of
\* wait, so the fast path still holds the lock when self is dropped.
WaitCheckUnlockGuardKept(t) ==
    /\ pc[t] = "wait_check_unlock"
    /\ IF ret[t] = "return" THEN lock' = lock ELSE Release(t)
    /\ pc' = [pc EXCEPT ![t] = IF ret[t] = "return" THEN "drop_lock" ELSE "wait_keepalive"]
    /\ UNCHANGED <<count, sawZero, waiters, strong, held, ret, alone, clones, released, notifies>>

\* The temporary guard is dropped at the end of the condition; then either
\* `return`, which drops self, or the slow path.
WaitCheckUnlock(t) ==
    /\ pc[t] = "wait_check_unlock"
    /\ Release(t)
    /\ pc' = [pc EXCEPT ![t] = IF ret[t] = "return" THEN "drop_lock" ELSE "wait_keepalive"]
    /\ UNCHANGED <<count, sawZero, waiters, strong, held, ret, alone, clones, released, notifies>>

\* Variant of WaitKeepAlive: no keep-alive reference is taken before drop(self)
\* (the loop goes on through a plain reference to Inner).
WaitKeepAliveNoClone(t) ==
    /\ pc[t] = "wait_keepalive"
    /\ pc' = [pc EXCEPT ![t] = "drop_lock"]
    /\ UNCHANGED <<count, lock, waiters, strong, held, ret, sawZero, alone, clones,
                   released, notifies>>

\* Variant of WaitKeepAlive: drop(self) is left out before the loop.
WaitKeepAliveNoDrop(t) ==
    /\ pc[t] = "wait_keepalive"
    /\ strong' = strong + 1
    /\ pc' = [pc EXCEPT ![t] = "wait_lock"]
    /\ UNCHANGED <<count, lock, waiters, held, ret, sawZero, alone, clones,
                   released, notifies>>

\* let inner = self.inner.clone(); drop(self);
WaitKeepAlive(t) ==
    /\ pc[t] = "wait_keepalive"
    /\ strong' = strong + 1
    /\ pc' = [pc EXCEPT ![t] = "drop_lock"]
    /\ UNCHANGED <<count, lock, waiters, held, ret, sawZero, alone, clones,
                   released, notifies>>

\* let mut count = inner.count.lock();
WaitLock(t) ==
    /\ pc[t] = "wait_lock"
    /\ Acquire(t)
    /\ pc' = [pc EXCEPT ![t] = "wait_loop"]
    /\ UNCHANGED <<count, waiters, strong, held, ret, sawZero, alone, clones,
                   released, notifies>>

\* Variant of WaitLoop: while *count > 1.
WaitLoopOffByOne(t) ==
    /\ pc[t] = "wait_loop"
    /\ sawZero' = [sawZero EXCEPT ![t] = (count = 0)]
    /\ IF count > 1
         THEN /\ waiters' = waiters \cup {t}
              /\ lock' = {}
              /\ pc' = [pc EXCEPT ![t] = "cv_wait"]
         ELSE /\ UNCHANGED <<waiters, lock>>
              /\ pc' = [pc EXCEPT ![t] = "wait_unlock"]
    /\ UNCHANGED <<count, strong, held, ret, alone, clones, released, notifies>>

\* Variant of WaitLoop: the thread blocks without giving up the lock.
WaitLoopKeepsLock(t) ==
    /\ pc[t] = "wait_loop"
    /\ sawZero' = [sawZero EXCEPT ![t] = (count = 0)]
    /\ IF count > 0
         THEN /\ waiters' = waiters \cup {t}
              /\ lock' = lock
              /\ pc' = [pc EXCEPT ![t] = "cv_wait"]
         ELSE /\ UNCHANGED <<waiters, lock>>
              /\ pc' = [pc EXCEPT ![t] = "wait_unlock"]
    /\ UNCHANGED <<count, strong, held, ret, alone, clones, released, notifies>>

\* while *count > 0 { inner.cvar.wait(&mut count); }
\* Condvar::wait queues the thread and unlocks the mutex in one atomic step.
WaitLoop(t) ==
    /\ pc[t] = "wait_loop"
    /\ sawZero' = [sawZero EXCEPT ![t] = (count = 0)]
    /\ IF count > 0
         THEN /\ waiters' = waiters \cup {t}
              /\ lock' = {}
              /\ pc' = [pc EXCEPT ![t] = "cv_wait"]
         ELSE /\ UNCHANGED <<waiters, lock>>
              /\ pc' = [pc EXCEPT ![t] = "wait_unlock"]
    /\ UNCHANGED <<count, strong, held, ret, alone, clones, released, notifies>>

\* Variant of CvWake: `if` in place of `while`, count is not checked again
\* after Condvar::wait returns.
CvWakeNoRecheck(t) ==
    /\ pc[t] = "cv_wait"
    /\ t \notin waiters
    /\ Acquire(t)
    /\ pc' = [pc EXCEPT ![t] = "wait_unlock"]
    /\ UNCHANGED <<count, waiters, strong, held, ret, sawZero, alone, clones,
                   released, notifies>>

\* Condvar::wait returns: the thread was taken off the queue by a notify and
\* has locked the mutex again.
CvWake(t) ==
    /\ pc[t] = "cv_wait"
    /\ t \notin waiters
    /\ Acquire(t)
    /\ pc' = [pc EXCEPT ![t] = "wait_loop"]
    /\ UNCHANGED <<count, waiters, strong, held, ret, sawZero, alone, clones,
                   released, notifies>>

\* End of wait: the guard `count` is dropped first ...
WaitUnlock(t) ==
    /\ pc[t] = "wait_unlock"
    /\ Release(t)
    /\ pc' = [pc EXCEPT ![t] = "wait_arc_drop"]
    /\ UNCHANGED <<count, sawZero, waiters, strong, held, ret, alone, clones, released, notifies>>

\* ... then the keep-alive `inner`, and wait returns to its caller.
WaitArcDrop(t) ==
    /\ pc[t] = "wait_arc_drop"
    /\ strong' = strong - 1
    /\ sawZero' = [sawZero EXCEPT ![t] = FALSE]
    /\ pc' = [pc EXCEPT ![t] = "idle"]
    /\ ret' = [ret EXCEPT ![t] = "idle"]
    /\ alone' = [alone EXCEPT ![t] = FALSE]
    /\ UNCHANGED <<count, lock, waiters, held, clones, released, notifies>>

\* ------------------------------------------------------------------------
\* The steps of a call in progress, and the whole system

Progress(t) ==
    \/ CloneLock(t) \/ CloneInc(t) \/ CloneArc(t) \/ CloneUnlock(t)
    \/ DropLock(t) \/ DropDec(t) \/ DropNotify(t) \/ DropUnlock(t) \/ DropArc(t)
    \/ WaitCheckLock(t) \/ WaitCheck(t) \/ WaitCheckUnlock(t) \/ WaitKeepAlive(t)
    \/ WaitLock(t) \/ WaitLoop(t) \/ CvWake(t) \/ WaitUnlock(t) \/ WaitArcDrop(t)

Next ==
    \/ \E t, u \in Threads : Move(t, u)
    \/ \E t \in Threads : CloneCall(t)
    \/ \E t \in Threads : DropCall(t)
    \/ \E t \in Threads : WaitCall(t)
    \/ \E t \in Threads : Progress(t)

Spec == Init /\ [][Next]_vars

\* Threads are scheduled fairly: a call in progress keeps taking steps.
FairSpec == Spec /\ \A t \in Threads : WF_vars(Progress(t))

\* ------------------------------------------------------------------------
\* Predicates used by the properties

DropPcs == {"drop_lock", "drop_dec", "drop_notify", "drop_unlock", "drop_arc"}
WaitPcs == {"wait_check_lock", "wait_check", "wait_check_unlock", "wait_keepalive",
            "wait_lock", "wait_loop", "cv_wait", "wait_unlock", "wait_arc_drop"}
LockPcs == {"clone_lock", "drop_lock", "wait_check_lock", "wait_lock"}

\* Thread t is inside a call of wait (the drop of self included).
InWait(t) == pc[t] \in WaitPcs \/ (pc[t] \in DropPcs /\ ret[t] # "idle")

\* The step by which t's call of wait returns to its caller.
WaitReturns(t) == InWait(t) /\ pc'[t] = "idle"

\* Thread t is parked on the condition variable.
Parked(t) == pc[t] = "cv_wait" /\ t \in waiters

\* Every handle has been dropped or passed to wait.
AllReleased == SumHeld(Threads) = 0

\* ------------------------------------------------------------------------
\* Properties

\* C1: a call of wait does not return while any other handle of the group is
\* live: at the step by which a wait returns, no live handle is left.
C1_WaitBlocksWhileLive == [][\A t \in Threads : WaitReturns(t) => NumLive = 0]_vars

\* Two slow-path waiters have left the loop and are returning.
C1_Witness ==
    \E t, u \in Threads : t # u /\ pc[t] = "wait_arc_drop" /\ pc[u] = "wait_unlock"

\* C2: on every path through wait, the latest read of count the returning
\* thread made under the lock gave 0.
C2_ReturnAfterReadingZero == [][\A t \in Threads : WaitReturns(t) => sawZero[t]]_vars

\* A fast-path wait is returning while a slow-path waiter is leaving its loop.
C2_Witness ==
    \E t, u \in Threads : /\ pc[t] = "drop_arc" /\ ret[t] = "return" /\ sawZero[t]
                           /\ pc[u] = "wait_unlock" /\ sawZero[u]

\* C3: under fair scheduling, once every handle has been dropped or passed to
\* wait, every thread inside wait eventually returns.
C3_WaitersEventuallyReturn ==
    \A t \in Threads : (AllReleased /\ InWait(t)) ~> (pc[t] = "idle")

\* Every handle is released and two threads are parked on the condition variable.
C3_Witness ==
    \E t, u \in Threads : t # u /\ Parked(t) /\ Parked(u) /\ AllReleased

\* C4: no lost wake-up: no thread joins the queue of the condition variable
\* once count is 0, and a thread is queued at count 0 only while the releasing
\* thread still holds the lock between its decrement and its broadcast.
C4_NoLostWakeup ==
    /\ []((count = 0 /\ waiters # {}) =>
             \E r \in Threads : lock = {r} /\ pc[r] = "drop_notify")
    /\ [][\A t \in Threads : (t \in waiters' /\ t \notin waiters) => count > 0]_vars

\* count is 0, one waiter has been notified and another is about to check count.
C4_Witness ==
    /\ count = 0
    /\ \E t, u \in Threads : t # u /\ pc[t] = "cv_wait" /\ pc[u] = "wait_lock"

\* C5: a release decrements count by exactly 1 under the lock; it notifies if
\* and only if that decrement left count at 0, and then it takes every queued
\* thread off the condition variable; a release that leaves count > 0 wakes
\* nobody, and nothing else wakes a queued thread.
C5_BroadcastExactlyAtZero ==
    [][/\ \A t \in Threads :
            /\ (pc[t] = "drop_dec" /\ pc'[t] = "drop_notify") =>
                  (count' = count - 1 /\ lock' = {t})
            /\ (pc[t] = "drop_notify" /\ pc'[t] = "drop_unlock") =>
                  IF count = 0 THEN waiters' = {} /\ notifies' = notifies + 1
                               ELSE waiters' = waiters /\ notifies' = notifies
       /\ (notifies' # notifies \/ ~(waiters \subseteq waiters')) =>
            \E t \in Threads : /\ pc[t] = "drop_notify" /\ pc'[t] = "drop_unlock"
                                /\ lock = {t} /\ count = 0]_vars

\* One broadcast has taken two parked threads off the queue.
C5_Witness ==
    /\ notifies = 1 /\ waiters = {}
    /\ \E t, u \in Threads : t # u /\ pc[t] = "cv_wait" /\ pc[u] = "cv_wait"

\* C6: in every state count is the number of live handles, a handle being
\* live from the increment that creates it to the decrement that releases it.
C6_CountIsLiveHandles == count = NumLive

\* After a release, two handles are live while a waiter is parked.
C6_Witness == released /\ count = 2 /\ \E t \in Threads : Parked(t)

\* C7: while no handle has been released, count is 1 plus the number of
\* clone calls made (those returned plus those past their increment).
C7_CountIsClonesPlusOne == ~released => count = clones + 1 + Cardinality(Building)

\* All the clone calls have returned and nothing has been released.
C7_Witness == ~released /\ clones = MaxClones /\ count = MaxClones + 1

\* C8: count is never negative: the decrement of drop never runs at count 0.
C8_NoUnderflow == count >= 0 /\ \A t \in Threads : pc[t] = "drop_dec" => count > 0

\* The last of several handles is about to be decremented.
C8_Witness == clones = MaxClones /\ count = 1 /\ \E t \in Threads : pc[t] = "drop_dec"

\* C9: once count is 0 it stays 0.
C9_ZeroAbsorbing == [][count = 0 => count' = 0]_vars

\* count is 0 while a thread is still inside wait with its keep-alive reference.
C9_Witness == count = 0 /\ \E t \in Threads : pc[t] \in {"wait_lock", "wait_loop", "cv_wait"}

\* C10: a wait called when count is 1 never parks, never asks for the lock
\* while holding it, and (under fair scheduling) returns.
C10_SoleHandleWaitReturns ==
    /\ [](\A t \in Threads : alone[t] =>
            /\ pc[t] # "cv_wait" /\ t \notin waiters
            /\ (pc[t] \in LockPcs => t \notin lock))
    /\ \A t \in Threads : alone[t] ~> (pc[t] = "idle")

\* A wait called at count 1 is about to lock again for the drop of self,
\* while an earlier waiter is parked.
C10_Witness ==
    \E t, u \in Threads : alone[t] /\ pc[t] = "drop_lock" /\ Parked(u)

\* ------------------------------------------------------------------------
\* Critical sections

\* The positions at which a thread reads or writes count.
AccessPcs == {"clone_inc", "drop_dec", "drop_notify", "wait_check", "wait_loop",
              "debug_read"}

\* The positions inside a critical section (from lock() to the drop of the guard).
CritPcs == {"clone_inc", "clone_arc", "clone_unlock", "drop_dec", "drop_notify",
            "drop_unlock", "wait_check", "wait_check_unlock", "wait_loop", "wait_unlock",
            "debug_read", "debug_unlock"}

\* In a call of wait, t has read count to select its path and the decrement
\* of the drop of self has not run yet.
BetweenCheckAndRelease(t) ==
    InWait(t) /\ pc[t] \in {"wait_check_unlock", "wait_keepalive", "drop_lock", "drop_dec"}

\* Thread u acquires the lock in this step.
Acquires(u) == u \notin lock /\ u \in lock'

\* C11 as stated: in wait, no other thread can acquire the lock between the
\* read of count that selects the path and the decrement of the release.
C11_Original ==
    [][\A t, u \in Threads :
          (t # u /\ BetweenCheckAndRelease(t)) => ~Acquires(u)]_vars

\* C11 as amended: every access to count is made by the holder of the lock and
\* each read-modify-write of clone and of drop runs inside one critical
\* section; in wait the read that selects the path and the decrement of the
\* release are two critical sections, with the lock released between them.
C11_LockedAccessTwoSections ==
    /\ [](\A t \in Threads :
            /\ pc[t] \in CritPcs => lock = {t}
            /\ pc[t] \in {"wait_keepalive", "drop_lock"} => t \notin lock)
    /\ [][\A t \in Threads :
            /\ (pc[t] = "clone_inc" /\ pc'[t] # pc[t]) => (count' = count + 1 /\ lock' = {t})
            /\ (pc[t] = "drop_dec" /\ pc'[t] # pc[t]) => (count' = count - 1 /\ lock' = {t})
            /\ (pc[t] = "drop_notify" /\ pc'[t] # pc[t]) => lock' = {t}]_vars

\* A thread in wait has read count and waits to lock again for its release
\* while another thread holds the lock.
C11_Witness ==
    \E t, u \in Threads : /\ t # u /\ InWait(t) /\ pc[t] = "drop_lock"
                          /\ lock = {u} /\ pc[u] = "drop_dec"

\* C12: when the fast-path check has read count == 1, count is still 1 until
\* the decrement of the drop of self runs, and that decrement yields 0.
C12_FastPathCountStable ==
    /\ [](\A t \in Threads :
            (ret[t] = "return" /\ pc[t] \in {"wait_check_unlock", "drop_lock", "drop_dec"})
               => count = 1)
    /\ [][\A t \in Threads :
            (ret[t] = "return" /\ pc[t] = "drop_dec" /\ pc'[t] # pc[t]) => count' = 0]_vars

\* A fast-path wait has read 1 and waits for the lock, which a woken slow-path
\* waiter holds.
C12_Witness ==
    \E t, u \in Threads : /\ ret[t] = "return" /\ pc[t] = "drop_lock"
                          /\ lock = {u} /\ pc[u] = "wait_loop"

\* C13: a wait that takes the fast path still performs the release: at the
\* step by which it returns, count is 0, notify_all has been called and no
\* thread is left on the queue of the condition variable.
C13_FastPathReleases ==
    [][\A t \in Threads :
          (WaitReturns(t) /\ ret[t] # "wait_lock")
             => (count = 0 /\ notifies >= 1 /\ waiters = {})]_vars

\* A fast-path wait is about to return and two earlier slow-path waiters have
\* been taken off the queue by its broadcast.
C13_Witness ==
    \E t, u, v \in Threads :
        /\ ret[t] = "return" /\ pc[t] = "drop_arc"
        /\ u # v /\ pc[u] = "cv_wait" /\ pc[v] = "cv_wait" /\ waiters = {}

\* C14: on the slow path wait locks for its loop only after the drop of self
\* has completed; if that drop's own decrement leaves count at 0 the waiter
\* calls notify_all itself, and it then leaves the loop at its first
\* evaluation of the predicate, without parking.
C14_SlowPathOwnZero ==
    [][\A t \in Threads :
          /\ (pc'[t] = "wait_lock" /\ pc[t] # "wait_lock") =>
                (pc[t] = "drop_arc" /\ t \notin Releasing)
          /\ (ret[t] = "wait_lock" /\ pc[t] = "drop_notify" /\ count = 0
                /\ pc'[t] # pc[t]) =>
                (notifies' = notifies + 1 /\ waiters' = {} /\ sawZero'[t])
          /\ (ret[t] = "wait_lock" /\ sawZero[t]
                /\ pc[t] \in {"drop_unlock", "drop_arc", "wait_lock"}) =>
                (sawZero'[t] /\ count' = 0)
          /\ (pc[t] = "wait_loop" /\ sawZero[t] /\ pc'[t] # pc[t]) =>
                (pc'[t] = "wait_unlock" /\ waiters' = waiters)]_vars

\* A slow-path waiter whose own decrement left count at 0 evaluates the loop
\* predicate for the first time, after its own broadcast.
C14_Witness ==
    \E t \in Threads : /\ ret[t] = "wait_lock" /\ pc[t] = "wait_loop" /\ sawZero[t]
                       /\ notifies = 1 /\ count = 0

\* ------------------------------------------------------------------------
\* A condition variable that may wake spuriously

\* Condvar::wait stops waiting without any notify: the thread leaves the
\* queue and goes on to lock the mutex again (CvWake).
SpuriousWake(t) ==
    /\ pc[t] = "cv_wait"
    /\ t \in waiters
    /\ waiters' = waiters \ {t}
    /\ UNCHANGED <<count, lock, strong, held, pc, ret, sawZero, alone, clones,
                   released, notifies>>

SpuriousNext ==
    \/ Next
    \/ \E t \in Threads : SpuriousWake(t)

\* The system with spurious wake-ups, threads scheduled fairly.
FairSpuriousSpec ==
    Init /\ [][SpuriousNext]_vars /\ \A t \in Threads : WF_vars(Progress(t))

\* C15: with spurious wake-ups, wait still returns only after reading count
\* == 0 under the lock, a waiter that finds count > 0 parks again, and every
\* thread inside wait returns once count is 0.
C15_SpuriousWakeHarmless ==
    /\ [][\A t \in Threads :
            /\ WaitReturns(t) => (sawZero[t] /\ count = 0)
            /\ (pc[t] = "wait_loop" /\ count > 0 /\ pc'[t] # pc[t]) =>
                  (pc'[t] = "cv_wait" /\ t \in waiters' /\ lock' = {})]_vars
    /\ \A t \in Threads : (count = 0 /\ InWait(t)) ~> (pc[t] = "idle")

\* A waiter has left the queue without any notify, while count > 0 and
\* another waiter is still parked; it is about to lock and check count again.
C15_Witness ==
    \E t \in Threads : /\ pc[t] = "cv_wait" /\ t \notin waiters
                       /\ count > 0 /\ notifies = 0
                       /\ \E u \in Threads \ {t} : Parked(u)

\* ------------------------------------------------------------------------
\* Debug for WaitGroup

\* format!("{:?}", wg): fmt borrows the WaitGroup
DebugCall(t) ==
    /\ pc[t] = "idle" /\ held[t] > 0
    /\ pc' = [pc EXCEPT ![t] = "debug_lock"]
    /\ UNCHANGED <<count, lock, waiters, strong, held, ret, sawZero, alone, clones,
                   released, notifies>>

\* Variant of DebugLock: count is read without locking the mutex.
DebugLockSkipped(t) ==
    /\ pc[t] = "debug_lock"
    /\ pc' = [pc EXCEPT ![t] = "debug_read"]
    /\ UNCHANGED <<count, lock, waiters, strong, held, ret, sawZero, alone, clones,
                   released, notifies>>

\* let count: &usize = &*self.inner.count.lock();  the guard lives to the end of fmt
DebugLock(t) ==
    /\ pc[t] = "debug_lock"
    /\ Acquire(t)
    /\ pc' = [pc EXCEPT ![t] = "debug_read"]
    /\ UNCHANGED <<count, waiters, strong, held, ret, sawZero, alone, clones,
                   released, notifies>>

\* f.debug_struct("WaitGroup").field("count", count).finish()
DebugRead(t) ==
    /\ pc[t] = "debug_read"
    /\ sawZero' = [sawZero EXCEPT ![t] = (count = 0)]
    /\ pc' = [pc EXCEPT ![t] = "debug_unlock"]
    /\ UNCHANGED <<count, lock, waiters, strong, held, ret, alone, clones,
                   released, notifies>>

\* The guard is dropped at the end of fmt.
DebugUnlock(t) ==
    /\ pc[t] = "debug_unlock"
    /\ Release(t)
    /\ sawZero' = [sawZero EXCEPT ![t] = FALSE]
    /\ pc' = [pc EXCEPT ![t] = "idle"]
    /\ UNCHANGED <<count, waiters, strong, held, ret, alone, clones, released, notifies>>

DebugNext ==
    \/ Next
    \/ \E t \in Threads : DebugCall(t)
    \/ \E t \in Threads : DebugLock(t)
    \/ \E t \in Threads : DebugRead(t)
    \/ \E t \in Threads : DebugUnlock(t)

\* The system with the Debug accessor in use as well.
DebugSpec == Init /\ [][DebugNext]_vars

\* C16: at most one thread holds the lock; every read or write of count
\* (fast-path check, loop predicate, increment, decrement, zero test, Debug)
\* is made by the thread holding it, and count changes only in a step of the
\* holder, which keeps the lock through that step.
C16_CountGuardedByLock ==
    /\ [](/\ Cardinality(lock) <= 1
          /\ \A t \in Threads : pc[t] \in AccessPcs => lock = {t})
    /\ [][count' # count =>
            \E t \in Threads : /\ lock = {t} /\ lock' = {t}
                               /\ pc[t] \in AccessPcs /\ pc'[t] # pc[t]]_vars

\* The Debug accessor reads count under the lock while another thread waits
\* for the lock to decrement count.
C16_Witness ==
    \E t, u \in Threads : pc[t] = "debug_read" /\ lock = {t} /\ pc[u] = "drop_lock"

\* ------------------------------------------------------------------------

\* Thread t is inside a call of clone.
InCloneCall(t) == t \in InClone
\* Thread t is inside a plain drop of a WaitGroup (not the one run by wait).
InDropCall(t) == pc[t] \in DropPcs /\ ret[t] = "idle"

\* C17: the thread holding the lock is always inside a critical section,
\* never parked and never waiting for the lock; so, under fair scheduling,
\* every call of clone and every drop of a handle completes.
C17_CloneAndDropComplete ==
    /\ [](\A t \in lock : pc[t] \in CritPcs)
    /\ \A t \in Threads : InCloneCall(t) ~> (pc[t] = "idle")
    /\ \A t \in Threads : InDropCall(t) ~> (pc[t] = "idle")

\* A drop waits for the lock, held by a third thread, while a waiter is parked.
C17_Witness ==
    \E t, u, v \in Threads : /\ InDropCall(t) /\ pc[t] = "drop_lock"
                             /\ u # t /\ lock = {u} /\ Parked(v)

\* ------------------------------------------------------------------------
\* The Arc<Inner>

\* WaitGroup values that exist, each owning one reference to Inner: the ones
\* held, the ones being consumed by drop or wait up to the drop of their field
\* `inner`, and the one a clone has built and not yet returned.
HandleRefs ==
    SumHeld(Threads)
    + Cardinality({t \in Threads :
                     pc[t] \in {"wait_check_lock", "wait_check", "wait_check_unlock",
                                "wait_keepalive"} \cup DropPcs})
    + Cardinality({t \in Threads : pc[t] = "clone_unlock"})

\* C18: the strong count of the Arc is the number of existing handles plus the
\* number of slow-path waiters holding their keep-alive reference; every
\* thread inside a call holds at least one of these references, so Inner is
\* never used after it is freed, and the count is 0 only when no handle and
\* no thread in a call is left.
C18_NoUseAfterFree ==
    /\ strong = HandleRefs + Cardinality(KeepAlive)
    /\ \A t \in Threads : pc[t] # "idle" => strong >= 1
    /\ strong = 0 => \A t \in Threads : pc[t] = "idle" /\ held[t] = 0

\* The only reference left is the keep-alive of a waiter about to lock for
\* its loop: every handle, its own included, is gone.
C18_Witness ==
    /\ strong = 1 /\ HandleRefs = 0
    /\ \E t \in Threads : pc[t] = "wait_lock"

\* C19: over the life of the group notify_all is called at most once, and
\* count goes from 1 to 0 only when no notify has been made yet.
C19_AtMostOneBroadcast ==
    /\ [](notifies <= 1)
    /\ [][(count = 1 /\ count' = 0) => notifies = 0]_vars

\* The broadcast has been made and every call has ended, all clones used.
C19_Witness ==
    /\ notifies = 1 /\ count = 0 /\ clones = MaxClones
    /\ \A t \in Threads : pc[t] = "idle"

====
